---- MODULE Spec2Model ----
(***************************************************************************)
(* Image Metadata Gateway (server/app.js): an express service in front of  *)
(* an S3 bucket and a DynamoDB table.  Four handlers are modelled:         *)
(*   POST /api/generate-presigned-url, POST /api/save-metadata,            *)
(*   GET /api/search, POST /api/delete-image.                              *)
(* A JavaScript string is a sequence of one-character strings; a JSON      *)
(* value is a tagged record, so that a string, a number, an array, null    *)
(* and an absent property stay distinct.                                   *)
(***************************************************************************)
EXTENDS Integers, Sequences, FiniteSets, TLC

VARIABLES
  clock,    \* Date.now() of the server process
  objects,  \* keys of the objects held by the S3 bucket
  table,    \* the DynamoDB table: imageId -> marshalled item
  issued,   \* keys returned so far by generate-presigned-url (held by clients)
  reqs,     \* per request slot: the position of an async handler between awaits
  resp      \* the response sent last, with the store calls its handler made

vars == <<clock, objects, table, issued, reqs, resp>>

(***************************** bounds **************************************)
StartTime == 9
MaxTicks == 1
MaxIssued == 1
MaxReq == 2
MaxNameLen == 3

ReqIds == 1..MaxReq

(************************* JSON / JS values ********************************)
JStr(s) == [t |-> "str", s |-> s]
JNum(n) == [t |-> "num", n |-> n]
JArr(a) == [t |-> "arr", a |-> a]
JNull == [t |-> "null"]
Undefined == [t |-> "undefined"]

IsString(v) == v.t = "str"
IsArray(v) == v.t = "arr"
\* JS truthiness of a value: '' , 0, null and undefined are falsy.
Truthy(v) ==
  CASE v.t = "str" -> v.s # <<>>
    [] v.t = "num" -> v.n # 0
    [] v.t = "arr" -> TRUE
    [] OTHER -> FALSE

(***************************** strings *************************************)
Digits == <<"0", "1", "2", "3", "4", "5", "6", "7", "8", "9">>

\* `${n}` of a non-negative integer
RECURSIVE NumToString(_)
NumToString(n) ==
  IF n < 10 THEN <<Digits[n + 1]>>
  ELSE NumToString(n \div 10) \o <<Digits[(n % 10) + 1]>>

\* Number("...") of a decimal string, as unmarshall does for an N attribute
RECURSIVE StringToNum(_)
StringToNum(s) ==
  IF s = <<>> THEN 0
  ELSE LET d == CHOOSE i \in 0..9 : Digits[i + 1] = s[Len(s)]
       IN 10 * StringToNum(SubSeq(s, 1, Len(s) - 1)) + d

\* the regular expression class \s, over the characters the model uses
IsWhitespace(c) == c \in {" ", "\t"}

LowerChar(c) ==
  CASE c = "A" -> "a"
    [] c = "B" -> "b"
    [] c = "C" -> "c"
    [] OTHER -> c

\* String.prototype.toLowerCase
ToLowerCase(s) == [i \in 1..Len(s) |-> LowerChar(s[i])]

\* String.prototype.trim
RECURSIVE TrimStart(_)
TrimStart(s) ==
  IF s # <<>> /\ IsWhitespace(Head(s)) THEN TrimStart(Tail(s)) ELSE s

RECURSIVE TrimEnd(_)
TrimEnd(s) ==
  IF s # <<>> /\ IsWhitespace(s[Len(s)])
  THEN TrimEnd(SubSeq(s, 1, Len(s) - 1))
  ELSE s

Trim(s) == TrimEnd(TrimStart(s))

\* String.prototype.includes
Includes(s, term) ==
  \E i \in 0..(Len(s) - Len(term)) : SubSeq(s, i + 1, i + Len(term)) = term

\* A replace without the + of the pattern: one '-' per whitespace character.
RECURSIVE ReplaceWhitespaceCharwise(_)
ReplaceWhitespaceCharwise(s) ==
  IF s = <<>> THEN <<>>
  ELSE <<IF IsWhitespace(Head(s)) THEN "-" ELSE Head(s)>>
         \o ReplaceWhitespaceCharwise(Tail(s))

\* fileName.replace(/\s+/g, '-'): every maximal run of whitespace becomes one '-'
RECURSIVE ReplaceWhitespace(_)
ReplaceWhitespace(s) ==
  IF s = <<>> THEN <<>>
  ELSE IF IsWhitespace(Head(s))
       THEN <<"-">> \o ReplaceWhitespace(TrimStart(Tail(s)))
       ELSE <<Head(s)>> \o ReplaceWhitespace(Tail(s))

(************************* configuration ***********************************)
\* process.env.S3_BUCKET_NAME and process.env.AWS_REGION
S3_BUCKET_NAME == <<"b", "k", "t">>
AWS_REGION == <<"e", "u">>

\* createPresignedPost: Conditions [['content-length-range', 0, 10485760]], Expires 300
MinUploadBytes == 0
MaxUploadBytes == 10485760
ExpiresSeconds == 300

\* The number of items one Scan call returns: the handler reads result.Items of a
\* single ScanCommand and never follows LastEvaluatedKey.
ScanPageItems == 2

Https == <<"h", "t", "t", "p", "s", ":", "/", "/">>
DotS3Dot == <<".", "s", "3", ".">>
AmazonAwsCom == <<".", "a", "m", "a", "z", "o", "n", "a", "w", "s", ".", "c", "o", "m", "/">>

\* The URL without its region part.
PublicUrlWithoutRegion(imageId) ==
  Https \o S3_BUCKET_NAME \o DotS3Dot \o AmazonAwsCom \o imageId

\* `https://${S3_BUCKET_NAME}.s3.${AWS_REGION}.amazonaws.com/${imageId}`
PublicUrl(imageId) ==
  Https \o S3_BUCKET_NAME \o DotS3Dot \o AWS_REGION \o AmazonAwsCom \o imageId

ImagesSlash == <<"i", "m", "a", "g", "e", "s", "/">>

\* `images/${Date.now()}-${fileName.replace(/\s+/g, '-')}`
UploadKey(now, fileName) ==
  ImagesSlash \o NumToString(now) \o <<"-">> \o ReplaceWhitespace(fileName)

(******************** marshall / unmarshall ********************************)
\* @aws-sdk/util-dynamodb: a JS value to a DynamoDB attribute value and back
MarshallValue(v) ==
  CASE v.t = "str" -> [S |-> v.s]
    [] v.t = "num" -> [N |-> NumToString(v.n)]
    [] v.t = "null" -> [NULL |-> TRUE]

UnmarshallValue(av) ==
  IF "S" \in DOMAIN av THEN JStr(av.S)
  ELSE IF "N" \in DOMAIN av THEN JNum(StringToNum(av.N))
  ELSE JNull

Marshall(item) ==
  [imageId |-> [S |-> item.imageId],
   caption |-> [S |-> item.caption],
   tags |-> [L |-> [i \in 1..Len(item.tags) |-> MarshallValue(item.tags[i])]],
   uploadTime |-> [N |-> NumToString(item.uploadTime)],
   uploaderId |-> [S |-> item.uploaderId]]

Unmarshall(av) ==
  [imageId |-> av.imageId.S,
   caption |-> av.caption.S,
   tags |-> [i \in 1..Len(av.tags.L) |-> UnmarshallValue(av.tags.L[i])],
   uploadTime |-> StringToNum(av.uploadTime.N),
   uploaderId |-> av.uploaderId.S]

(************************ express-validator ********************************)
Err(param, check) == [param |-> param, check |-> check]

\* body(param).isString() without .notEmpty(): '' passes
RequiredStringTypeOnly(param, v) ==
  IF IsString(v) THEN <<>> ELSE <<Err(param, "isString")>>

\* body(param).isString().notEmpty(): every failing validator adds one error
RequiredString(param, v) ==
  (IF IsString(v) THEN <<>> ELSE <<Err(param, "isString")>>)
  \o (IF v = Undefined \/ v = JStr(<<>>) THEN <<Err(param, "notEmpty")>> ELSE <<>>)

\* body(param).isString().optional(): an absent property is not validated
OptionalString(param, v) ==
  IF v = Undefined \/ IsString(v) THEN <<>> ELSE <<Err(param, "isString")>>

\* body(param).isArray().optional()
OptionalArray(param, v) ==
  IF v = Undefined \/ IsArray(v) THEN <<>> ELSE <<Err(param, "isArray")>>

(*************************** store calls ***********************************)
\* One call to a store, as the store saw it: ok is whether it returned (FALSE: it
\* threw), found whether the item, object or page it addressed was there.
Call(api, ok, found) == [api |-> api, ok |-> ok, found |-> found]

\* S3 DeleteObject: removes the object; an absent key is not an error
S3DeleteObject(objs, key) == objs \ {key}

\* An update that sets only the attributes the request gave: an empty caption or
\* empty tags keep those of the item already stored.
PutItemMerging(tbl, av) ==
  LET k == av.imageId.S
      old == IF k \in DOMAIN tbl THEN tbl[k] ELSE av
      new == [av EXCEPT !.caption = IF av.caption.S = <<>> THEN old.caption ELSE @,
                        !.tags = IF av.tags.L = <<>> THEN old.tags ELSE @]
  IN [x \in DOMAIN tbl \cup {k} |-> IF x = k THEN new ELSE tbl[x]]

\* DynamoDB PutItem without a condition: the item replaces any item of the same key
PutItem(tbl, av) ==
  LET k == av.imageId.S
  IN [x \in DOMAIN tbl \cup {k} |-> IF x = k THEN av ELSE tbl[x]]

\* An update that empties caption and tags and keeps the item.
DeleteItemClearingFields(tbl, key) ==
  [x \in DOMAIN tbl |->
     IF x = key THEN [tbl[x] EXCEPT !.caption = [S |-> <<>>], !.tags = [L |-> <<>>]]
     ELSE tbl[x]]

\* DynamoDB DeleteItem without a condition: an absent key is not an error
DeleteItem(tbl, key) == [x \in DOMAIN tbl \ {key} |-> tbl[x]]

\* The pages a DynamoDB Scan may return first: the whole table when it fits one
\* page, otherwise ScanPageItems of its items (which ones is the service's choice).
ScanPages(tbl) ==
  IF Cardinality(DOMAIN tbl) <= ScanPageItems
  THEN {DOMAIN tbl}
  ELSE {P \in SUBSET (DOMAIN tbl) : Cardinality(P) = ScanPageItems}

\* result.Items of one page, in the order the service lists them
RECURSIVE ItemsOf(_, _)
ItemsOf(tbl, page) ==
  IF page = {} THEN <<>>
  ELSE LET k == CHOOSE k \in page : TRUE
       IN <<tbl[k]>> \o ItemsOf(tbl, page \ {k})

(***************************** responses ***********************************)
Response(op, req, status, body, calls) ==
  [op |-> op, req |-> req, status |-> status, body |-> body, calls |-> calls]

NoResponse == [op |-> "none"]
Idle == [pc |-> "idle"]

BadRequest(op, req, errors) == Response(op, req, 400, [errors |-> errors], <<>>)

(************** POST /api/generate-presigned-url ***************************)
GenerateErrors(body) ==
  RequiredString("fileName", body.fileName) \o RequiredString("fileType", body.fileType)

\* createPresignedPost: the form fields a client must send with its upload
PresignedFields(key, now) ==
  [bucket |-> S3_BUCKET_NAME,
   key |-> key,
   policy |-> [expiration |-> now + ExpiresSeconds * 1000,
               minBytes |-> MinUploadBytes,
               maxBytes |-> MaxUploadBytes]]

PresignedUrl == Https \o S3_BUCKET_NAME \o DotS3Dot \o AWS_REGION \o AmazonAwsCom

\* The handler: signOk is whether createPresignedPost returned (FALSE: it threw).
GeneratePresignedUrl(body, signOk) ==
  /\ resp' =
       IF GenerateErrors(body) # <<>>
       THEN BadRequest("generate", body, GenerateErrors(body))
       ELSE IF ~signOk
       THEN Response("generate", body, 500,
                     [error |-> "Failed to generate upload URL"], <<>>)
       ELSE LET key == UploadKey(clock, body.fileName.s)
            IN Response("generate", body, 200,
                        [url |-> PresignedUrl,
                         fields |-> PresignedFields(key, clock),
                         key |-> key], <<>>)
  /\ UNCHANGED <<clock, objects, table, reqs>>

\* The client keeps the authorization a 200 response carries.
ClientKeepsFields ==
  issued' = IF resp'.status = 200 THEN issued \cup {resp'.body.fields} ELSE issued

\* The client uploads straight to S3 with an authorization it holds; S3 accepts
\* the form when the policy has not expired and the size is in its range.
Upload(fields, size) ==
  /\ fields \in issued
  /\ clock < fields.policy.expiration
  /\ size >= fields.policy.minBytes /\ size <= fields.policy.maxBytes
  /\ objects' = objects \cup {fields.key}
  /\ UNCHANGED <<clock, table, issued, reqs, resp>>

(******************** POST /api/save-metadata ******************************)
SaveErrors(body) ==
  RequiredString("key", body.key)
  \o OptionalString("caption", body.caption)
  \o OptionalArray("tags", body.tags)

\* const item = { imageId: key, caption: caption || '', tags: tags || [], ... }
NewItem(body, now, ip) ==
  [imageId |-> body.key.s,
   caption |-> IF Truthy(body.caption) THEN body.caption.s ELSE <<>>,
   tags |-> IF Truthy(body.tags) THEN body.tags.a ELSE <<>>,
   uploadTime |-> now,
   uploaderId |-> ip]

\* Validation, the item, and the PutItemCommand handed to the client: the handler
\* then waits for the table's answer in slot r.
SaveMetadata(r, body, ip) ==
  /\ reqs[r] = Idle
  /\ IF SaveErrors(body) # <<>>
     THEN /\ resp' = BadRequest("save", body, SaveErrors(body))
          /\ UNCHANGED reqs
     ELSE /\ reqs' = [reqs EXCEPT ![r] =
                        [pc |-> "PutItem", req |-> body,
                         item |-> Marshall(NewItem(body, clock, ip))]]
          /\ UNCHANGED resp
  /\ UNCHANGED <<clock, objects, table, issued>>

\* The table applies the put (putOk) or the call throws; the handler answers.
SaveMetadataPut(r, putOk) ==
  /\ reqs[r].pc = "PutItem"
  /\ table' = IF putOk THEN PutItem(table, reqs[r].item) ELSE table
  /\ LET calls == <<Call("PutItem", putOk, reqs[r].req.key.s \in DOMAIN table)>>
     IN resp' =
          IF putOk
          THEN Response("save", reqs[r].req, 200,
                        [success |-> TRUE, message |-> "Metadata saved"], calls)
          ELSE Response("save", reqs[r].req, 500,
                        [error |-> "Failed to save metadata"], calls)
  /\ reqs' = [reqs EXCEPT ![r] = Idle]
  /\ UNCHANGED <<clock, objects, issued>>

(************************* GET /api/search *********************************)
\* !q || q.trim() === ''
IsBlankQuery(q) == ~Truthy(q) \/ Trim(q.s) = <<>>

\* q.toLowerCase().trim()
SearchTerm(q) == Trim(ToLowerCase(q.s))

\* item.tags.some(tag => tag && tag.toLowerCase().includes(searchTerm)):
\* "true", "false", or "throw" when a truthy tag has no toLowerCase method.
RECURSIVE TagsMatch(_, _)
TagsMatch(tags, term) ==
  IF tags = <<>> THEN "false"
  ELSE LET tag == Head(tags)
       IN IF ~Truthy(tag) THEN TagsMatch(Tail(tags), term)
          ELSE IF ~IsString(tag) THEN "throw"
          ELSE IF Includes(ToLowerCase(tag.s), term) THEN "true"
          ELSE TagsMatch(Tail(tags), term)

\* item.caption && item.caption.toLowerCase().includes(searchTerm)
CaptionMatch(item, term) ==
  item.caption # <<>> /\ Includes(ToLowerCase(item.caption), term)

\* The filter callback: both matches are computed before the return.
FilterThrows(item, term) == TagsMatch(item.tags, term) = "throw"

Matches(item, term) ==
  CaptionMatch(item, term) \/ TagsMatch(item.tags, term) = "true"

ImageWithUrl(item) ==
  [key |-> item.imageId,
   caption |-> item.caption,
   tags |-> item.tags,
   uploadTime |-> item.uploadTime,
   presignedGetUrl |-> PublicUrl(item.imageId)]

SearchFailed(q, calls) == Response("search", q, 500, [error |-> "Search failed"], calls)

\* The handler over the page the one Scan call returned.
SearchResponse(q, page) ==
  LET items == [i \in 1..Len(page) |-> Unmarshall(page[i])]
      calls == <<Call("Scan", TRUE, page # <<>>)>>
  IN IF IsBlankQuery(q)
     THEN Response("search", q, 200,
                   [i \in 1..Len(items) |-> ImageWithUrl(items[i])], calls)
     ELSE LET term == SearchTerm(q)
              filteredItems == SelectSeq(items, LAMBDA item : Matches(item, term))
          IN IF \E i \in 1..Len(items) : FilterThrows(items[i], term)
             THEN SearchFailed(q, calls)
             ELSE Response("search", q, 200,
                           [i \in 1..Len(filteredItems) |->
                              ImageWithUrl(filteredItems[i])], calls)

\* scanOk is whether the Scan call returned; page is the page it returned.
Search(q, scanOk, page) ==
  /\ page \in ScanPages(table)
  /\ resp' = IF scanOk
             THEN SearchResponse(q, ItemsOf(table, page))
             ELSE SearchFailed(q, <<Call("Scan", FALSE, page # {})>>)
  /\ UNCHANGED <<clock, objects, table, issued, reqs>>

(********************* POST /api/delete-image ******************************)
DeleteErrors(body) == RequiredString("key", body.key)

DeleteFailed(body, calls) ==
  Response("delete", body, 500, [error |-> "Failed to delete image"], calls)

\* A handler that does not notice the object delete failing and goes on to the
\* table delete.
DeleteImageIgnoringS3Error(r, body, s3Ok) ==
  /\ reqs[r] = Idle
  /\ IF DeleteErrors(body) # <<>>
     THEN /\ resp' = BadRequest("delete", body, DeleteErrors(body))
          /\ UNCHANGED <<objects, reqs>>
     ELSE /\ objects' = IF s3Ok THEN S3DeleteObject(objects, body.key.s) ELSE objects
          /\ reqs' = [reqs EXCEPT ![r] =
                        [pc |-> "DeleteItem", req |-> body,
                         calls |-> <<Call("DeleteObject", s3Ok,
                                          body.key.s \in objects)>>]]
          /\ UNCHANGED resp
  /\ UNCHANGED <<clock, table, issued>>

\* Validation and the S3 DeleteObject call: s3Ok is whether the call returned.
\* When it throws the handler answers 500 and sends nothing to the table.
DeleteImage(r, body, s3Ok) ==
  /\ reqs[r] = Idle
  /\ IF DeleteErrors(body) # <<>>
     THEN /\ resp' = BadRequest("delete", body, DeleteErrors(body))
          /\ UNCHANGED <<objects, reqs>>
     ELSE IF ~s3Ok
     THEN /\ resp' = DeleteFailed(body, <<Call("DeleteObject", FALSE,
                                               body.key.s \in objects)>>)
          /\ UNCHANGED <<objects, reqs>>
     ELSE /\ objects' = S3DeleteObject(objects, body.key.s)
          /\ reqs' = [reqs EXCEPT ![r] =
                        [pc |-> "DeleteItem", req |-> body,
                         calls |-> <<Call("DeleteObject", TRUE,
                                          body.key.s \in objects)>>]]
          /\ UNCHANGED resp
  /\ UNCHANGED <<clock, table, issued>>

\* A handler that does not notice the table delete failing and answers success.
DeleteImageItemSwallowing(r, ddbOk) ==
  /\ reqs[r].pc = "DeleteItem"
  /\ table' = IF ddbOk THEN DeleteItem(table, reqs[r].req.key.s) ELSE table
  /\ resp' = Response("delete", reqs[r].req, 200,
                      [success |-> TRUE, message |-> "Image deleted"],
                      reqs[r].calls
                        \o <<Call("DeleteItem", ddbOk, reqs[r].req.key.s \in DOMAIN table)>>)
  /\ reqs' = [reqs EXCEPT ![r] = Idle]
  /\ UNCHANGED <<clock, objects, issued>>

\* A handler that answers 404 when the table holds no record of the key.
DeleteImageItemChecked(r, ddbOk) ==
  /\ reqs[r].pc = "DeleteItem"
  /\ table' = IF ddbOk THEN DeleteItem(table, reqs[r].req.key.s) ELSE table
  /\ LET calls == reqs[r].calls
                    \o <<Call("DeleteItem", ddbOk, reqs[r].req.key.s \in DOMAIN table)>>
     IN resp' =
          IF ~ddbOk THEN DeleteFailed(reqs[r].req, calls)
          ELSE IF reqs[r].req.key.s \notin DOMAIN table
          THEN Response("delete", reqs[r].req, 404, [error |-> "Image not found"], calls)
          ELSE Response("delete", reqs[r].req, 200,
                        [success |-> TRUE, message |-> "Image deleted"], calls)
  /\ reqs' = [reqs EXCEPT ![r] = Idle]
  /\ UNCHANGED <<clock, objects, issued>>

\* The DynamoDB DeleteItem call of a request whose object delete returned.
DeleteImageItem(r, ddbOk) ==
  /\ reqs[r].pc = "DeleteItem"
  /\ table' = IF ddbOk THEN DeleteItem(table, reqs[r].req.key.s) ELSE table
  /\ LET calls == reqs[r].calls
                    \o <<Call("DeleteItem", ddbOk, reqs[r].req.key.s \in DOMAIN table)>>
     IN resp' =
          IF ddbOk
          THEN Response("delete", reqs[r].req, 200,
                        [success |-> TRUE, message |-> "Image deleted"], calls)
          ELSE DeleteFailed(reqs[r].req, calls)
  /\ reqs' = [reqs EXCEPT ![r] = Idle]
  /\ UNCHANGED <<clock, objects, issued>>

(******************************* time **************************************)
Tick ==
  /\ clock < StartTime + MaxTicks
  /\ clock' = clock + 1
  /\ UNCHANGED <<objects, table, issued, reqs, resp>>

(************************ requests of the model ****************************)
FileNames == {<<"c", " ", "\t", "p">>}

BadStrings == {Undefined, JStr(<<>>), JNum(7)}

GenerateBodiesOver(names) ==
  [fileName : {JStr(n) : n \in names} \cup BadStrings,
   fileType : {JStr(<<"t">>), Undefined}]

ForeignKeys == {<<"x">>}
KnownKeys == {f.key : f \in issued} \cup ForeignKeys

\* caption and tags of a save request: each meta leaves one of the two out
Metas ==
  {[caption |-> JStr(<<"A", "b">>), tags |-> Undefined],
   [caption |-> Undefined, tags |-> JArr(<<JStr(<<"B">>)>>)],
   [caption |-> JNum(7), tags |-> JStr(<<"B">>)]}

SaveBodiesOver(keys) ==
  {[key |-> k, caption |-> m.caption, tags |-> m.tags] :
     k \in {JStr(x) : x \in keys} \cup BadStrings, m \in Metas}

DeleteBodiesOver(keys) == [key : {JStr(k) : k \in keys} \cup BadStrings]

Queries == {Undefined, JStr(<<"b">>)}

Addresses == {<<"i", "p">>}
UploadSizes == {MinUploadBytes, MaxUploadBytes, MaxUploadBytes + 1}

(**************************** specification ********************************)
Init ==
  /\ clock = StartTime
  /\ objects = {}
  /\ table = <<>>
  /\ issued = {}
  /\ reqs = [r \in ReqIds |-> Idle]
  /\ resp = NoResponse

\* res.json(...) reaches the client: the responses are observed one at a time.
Deliver ==
  /\ resp # NoResponse
  /\ resp' = NoResponse
  /\ UNCHANGED <<clock, objects, table, issued, reqs>>

\* An arriving request takes the first free slot.
FreeSlot(r) == reqs[r] = Idle /\ \A r2 \in ReqIds : r2 < r => reqs[r2] # Idle

Next ==
  \/ Deliver
  \/ resp = NoResponse /\ Tick
  \/ \E body \in GenerateBodiesOver(FileNames), signOk \in BOOLEAN :
       /\ resp = NoResponse
       /\ Cardinality(issued) < MaxIssued
       /\ GeneratePresignedUrl(body, signOk)
       /\ ClientKeepsFields
  \/ \E fields \in issued, size \in UploadSizes :
       resp = NoResponse /\ Upload(fields, size)
  \/ \E r \in ReqIds, body \in SaveBodiesOver(KnownKeys), ip \in Addresses :
       resp = NoResponse /\ FreeSlot(r) /\ SaveMetadata(r, body, ip)
  \/ \E r \in ReqIds, putOk \in BOOLEAN :
       resp = NoResponse /\ SaveMetadataPut(r, putOk)
  \/ \E q \in Queries, scanOk \in BOOLEAN, page \in SUBSET (DOMAIN table) :
       resp = NoResponse /\ Search(q, scanOk, page)
  \/ \E r \in ReqIds, body \in DeleteBodiesOver(KnownKeys), s3Ok \in BOOLEAN :
       resp = NoResponse /\ FreeSlot(r) /\ DeleteImage(r, body, s3Ok)
  \/ \E r \in ReqIds, ddbOk \in BOOLEAN :
       resp = NoResponse /\ DeleteImageItem(r, ddbOk)

Spec == Init /\ [][Next]_vars

(*********** the catalog alone: save-metadata and search ******************)
\* Three records exceed one Scan page; the tags of a save request are any array.
CatalogKeys == {<<"x">>, <<"y">>, <<"z">>}

CatalogMetas ==
  {[caption |-> JStr(<<"A", "b">>), tags |-> Undefined],
   [caption |-> Undefined, tags |-> JArr(<<JNull, JStr(<<"a">>), JStr(<<"B", "c">>)>>)],
   [caption |-> Undefined, tags |-> JArr(<<JStr(<<"a">>), JNum(5)>>)]}

CatalogBodies ==
  {[key |-> JStr(k), caption |-> m.caption, tags |-> m.tags] :
     k \in CatalogKeys, m \in CatalogMetas}

CatalogQueries ==
  {Undefined, JStr(<<>>), JStr(<<" ", "\t">>),
   JStr(<<"a">>), JStr(<<" ", "B", " ">>), JStr(<<"b", "c">>), JStr(<<"c", "a">>)}

NextCatalog ==
  \/ Deliver
  \/ \E r \in ReqIds, body \in CatalogBodies, ip \in Addresses :
       resp = NoResponse /\ FreeSlot(r) /\ SaveMetadata(r, body, ip)
  \/ \E r \in ReqIds, putOk \in BOOLEAN :
       resp = NoResponse /\ SaveMetadataPut(r, putOk)
  \/ \E q \in CatalogQueries, scanOk \in BOOLEAN, page \in SUBSET (DOMAIN table) :
       resp = NoResponse /\ Search(q, scanOk, page)

SpecCatalog == Init /\ [][NextCatalog]_vars

(*********** the key issuer alone, over every short file name **************)
NameChars == {"a", " ", "\t", "-"}

NamesUpTo(n) == UNION {[1..len -> NameChars] : len \in 1..n}

InitKey ==
  /\ clock \in StartTime..(StartTime + MaxTicks)
  /\ objects = {}
  /\ table = <<>>
  /\ issued = {}
  /\ reqs = [r \in ReqIds |-> Idle]
  /\ resp = NoResponse

NextKey ==
  \/ Deliver
  \/ \E body \in GenerateBodiesOver(NamesUpTo(MaxNameLen)), signOk \in BOOLEAN :
       /\ resp = NoResponse
       /\ GeneratePresignedUrl(body, signOk)
       /\ UNCHANGED issued

SpecKey == InitKey /\ [][NextKey]_vars

(***************************************************************************)
(* Properties.  A response stays in resp until Deliver, and nothing else   *)
(* happens meanwhile: a state with a response is the state its handler     *)
(* left.  A step with resp = NoResponse and resp' # NoResponse is the step *)
(* in which a handler answers.                                             *)
(***************************************************************************)
Answered(op) == resp # NoResponse /\ resp.op = op
Answers(op) == resp = NoResponse /\ resp' # NoResponse /\ resp'.op = op

\* a required field that is missing, empty or not a string
BadRequired(v) == v = Undefined \/ v.t # "str" \/ Len(v.s) = 0

\* q is absent, empty or whitespace-only
BlankQuery(q) == q = Undefined \/ \A i \in 1..Len(q.s) : IsWhitespace(q.s[i])

ResultKeys(body) == {body[i].key : i \in 1..Len(body)}

UrlOf(imageId) ==
  Https \o S3_BUCKET_NAME \o <<".", "s", "3", ".">> \o AWS_REGION
    \o <<".", "a", "m", "a", "z", "o", "n", "a", "w", "s", ".", "c", "o", "m", "/">>
    \o imageId

\* a result entry carries what the table stores for its key
EntryOfRecord(e, av) ==
  /\ e.caption = av.caption.S
  /\ Len(e.tags) = Len(av.tags.L)
  /\ \A i \in 1..Len(e.tags) : MarshallValue(e.tags[i]) = av.tags.L[i]
  /\ NumToString(e.uploadTime) = av.uploadTime.N

(******************************** C8 ***************************************)
\* s with each whitespace character replaced by a hyphen
HyphenPerCharacter(s) == [i \in 1..Len(s) |-> IF IsWhitespace(s[i]) THEN "-" ELSE s[i]]

\* s with each maximal run of whitespace replaced by one hyphen: the whitespace
\* characters that follow a whitespace character are dropped first
HyphenPerRun(s) ==
  LET first == SelectSeq([i \in 1..Len(s) |-> i],
                         LAMBDA i : ~(i > 1 /\ IsWhitespace(s[i]) /\ IsWhitespace(s[i - 1])))
  IN HyphenPerCharacter([j \in 1..Len(first) |-> s[first[j]]])

ValidGenerate(req) == ~BadRequired(req.fileName) /\ ~BadRequired(req.fileType)

KeyResponse(name) ==
  /\ resp.status = 200
  /\ DOMAIN resp.body = {"url", "fields", "key"}
  /\ resp.body.key = ImagesSlash \o NumToString(clock) \o <<"-">> \o name
  /\ resp.body.fields.key = resp.body.key

\* C8 as stated: the issued key is images/<timestamp>-<fileName with every
\* whitespace character replaced by a hyphen>, and the response carries it with
\* url and fields.
C8_KeyHyphenPerCharacter ==
  Answered("generate") /\ ValidGenerate(resp.req) /\ resp.status # 500
    => KeyResponse(HyphenPerCharacter(resp.req.fileName.s))

\* C8 amended: for every valid {fileName, fileType} whose signing succeeds, the
\* issued key is images/<decimal Date.now()>-<fileName with each maximal run of
\* whitespace replaced by ONE hyphen, the other characters unchanged and in
\* order>, and the response carries that key with url and fields.
C8_KeyHyphenPerRun ==
  Answered("generate") /\ ValidGenerate(resp.req) /\ resp.status # 500
    => KeyResponse(HyphenPerRun(resp.req.fileName.s))

C8_RunCollapsed ==
  /\ Answered("generate") /\ resp.status = 200
  /\ resp.req.fileName.s = <<"a", " ", "\t">>
  /\ Len(resp.body.key) = Len(ImagesSlash) + Len(NumToString(clock)) + 3

(******************************** C1 ***************************************)
\* the trimmed, lower-cased q
TermOf(q) == ToLowerCase(Trim(q.s))

\* the term is a substring of the lower-cased caption or of a lower-cased tag
RecordMatches(av, term) ==
  \/ Includes(ToLowerCase(av.caption.S), term)
  \/ \E i \in 1..Len(av.tags.L) :
       "S" \in DOMAIN av.tags.L[i] /\ Includes(ToLowerCase(av.tags.L[i].S), term)

ScanReturned == resp.calls[1].ok

\* C1: for every table content and every non-blank q, a search whose scan
\* returns answers exactly the stored records that match the trimmed, lower-cased
\* q in their caption or in a tag: none left out, none added.
C1_SearchReturnsExactlyTheMatches ==
  Answered("search") /\ ScanReturned /\ ~BlankQuery(resp.req)
    => /\ resp.status = 200
       /\ ResultKeys(resp.body) =
            {k \in DOMAIN table : RecordMatches(table[k], TermOf(resp.req))}

(******************************** C2 ***************************************)
UrlListing(body) ==
  /\ \A i \in 1..Len(body) :
       /\ body[i].key \in DOMAIN table
       /\ EntryOfRecord(body[i], table[body[i].key])
       /\ body[i].presignedGetUrl = UrlOf(body[i].key)
  /\ \A i, j \in 1..Len(body) : body[i].key = body[j].key => i = j

RecordOfRequest(av, req) ==
  /\ av.caption.S = IF req.caption = Undefined THEN <<>> ELSE req.caption.s
  /\ LET tags == IF req.tags = Undefined THEN <<>> ELSE req.tags.a
     IN /\ Len(av.tags.L) = Len(tags)
        /\ \A i \in 1..Len(tags) : UnmarshallValue(av.tags.L[i]) = tags[i]

SavedAsSent ==
  Answered("save") /\ resp.status = 200
    => /\ resp.req.key.s \in DOMAIN table
       /\ table[resp.req.key.s].imageId.S = resp.req.key.s
       /\ RecordOfRequest(table[resp.req.key.s], resp.req)

SearchShowsStored ==
  Answered("search") /\ resp.status = 200
    => \A i \in 1..Len(resp.body) :
         /\ resp.body[i].key \in DOMAIN table
         /\ EntryOfRecord(resp.body[i], table[resp.body[i].key])

LacksRequired(rs) ==
  CASE rs.op = "generate" -> BadRequired(rs.req.fileName) \/ BadRequired(rs.req.fileType)
    [] rs.op \in {"save", "delete"} -> BadRequired(rs.req.key)
    [] OTHER -> FALSE

\* C4: on the three validated endpoints a request whose required field is
\* missing, empty or not a string is answered 400 with a non-empty errors array,
\* without any call to a store, and leaves the bucket and the table unchanged.
C4_InvalidRequestTouchesNothing ==
  [][resp = NoResponse /\ resp' # NoResponse /\ LacksRequired(resp')
       => /\ resp'.status = 400
          /\ Len(resp'.body.errors) > 0
          /\ resp'.calls = <<>>
          /\ objects' = objects /\ table' = table /\ reqs' = reqs]_vars

C4_EmptyKeyRejected ==
  /\ Answered("delete") /\ resp.status = 400
  /\ resp.req.key = JStr(<<>>)
  /\ objects # {} /\ DOMAIN table # {}

(******************************** C5 ***************************************)
\* slot r takes up a delete-image request whose object delete returned
ObjectDeleteReturns(r) == reqs[r] = Idle /\ reqs'[r].pc = "DeleteItem"

\* C5: delete-image deletes the object first and the record second, with no
\* rollback: the step in which the object delete returns removes the object and
\* leaves the table alone, and when the table delete then fails the request is
\* answered 500 with the record still stored and the object not restored.
C5_ObjectGoneRecordKept ==
  [][/\ \A r \in ReqIds :
          ObjectDeleteReturns(r)
            => reqs'[r].req.key.s \notin objects' /\ table' = table
     /\ Answers("delete") /\ Len(resp'.calls) = 2 /\ ~resp'.calls[2].ok
          => /\ resp'.status = 500
             /\ resp'.calls[1] = Call("DeleteObject", TRUE, resp'.calls[1].found)
             /\ table' = table /\ objects' = objects]_vars

C5_OrphanRecord ==
  /\ Answered("delete") /\ resp.status = 500
  /\ Len(resp.calls) = 2
  /\ resp.calls[1].ok /\ resp.calls[1].found
  /\ ~resp.calls[2].ok /\ resp.calls[2].found
  /\ resp.req.key.s \in DOMAIN table
  /\ resp.req.key.s \notin objects

(******************************** C6 ***************************************)
\* slot r finishes a request that was waiting for the table call named pc
TableCallEnds(r, pc) == reqs[r].pc = pc /\ reqs'[r] = Idle

DeletedByDeleteImage(k) ==
  /\ k \notin DOMAIN table'
  /\ \E r \in ReqIds : TableCallEnds(r, "DeleteItem") /\ reqs[r].req.key.s = k

ReplacedBySave(k) ==
  /\ k \in DOMAIN table'
  /\ \E r \in ReqIds :
       /\ TableCallEnds(r, "PutItem")
       /\ reqs[r].req.key.s = k
       /\ table'[k] = reqs[r].item

Untouched(k) == k \in DOMAIN table' /\ table'[k] = table[k]

\* C6 as stated: a record once written never changes; the only thing that can
\* happen to it is its full deletion by delete-image.
C6_RecordsImmutable ==
  [][\A k \in DOMAIN table : Untouched(k) \/ DeletedByDeleteImage(k)]_vars

\* C6 amended: no operation changes single fields of a stored record; a record
\* changes only by being replaced as a whole by a later save-metadata with the
\* same key (caption, tags, uploadTime and uploaderId all those of that
\* request) or by its full deletion by delete-image.
C6_RecordsReplacedOrDeleted ==
  [][\A k \in DOMAIN table :
       Untouched(k) \/ DeletedByDeleteImage(k) \/ ReplacedBySave(k)]_vars

C6_RecordReplacedLater ==
  /\ Answered("save") /\ resp.status = 200
  /\ resp.calls[1].found
  /\ table[resp.req.key.s].uploadTime.N # NumToString(StartTime)
  /\ resp.req.tags = Undefined

(******************************** C7 ***************************************)
\* C7: every record of the table has an imageId that an earlier successful
\* generate-presigned-url returned.
C7_RecordKeysWereIssued ==
  \A k \in DOMAIN table : \E fields \in issued : fields.key = k

(******************************** C9 ***************************************)
OtherKeysKept(k) ==
  /\ objects' \ {k} = objects \ {k}
  /\ DOMAIN table' \ {k} = DOMAIN table \ {k}
  /\ \A x \in DOMAIN table \ {k} : table'[x] = table[x]

\* C9: delete-image for a non-empty key with neither an object nor a record
\* is answered {success: true} when both store calls return (there is no
\* existence check), and every step of a delete-image request leaves the
\* objects and records of all other keys as they were.
C9_DeleteOfNothingSucceeds ==
  [][/\ Answers("delete") /\ Len(resp'.calls) = 2
          /\ resp'.calls[1].ok /\ ~resp'.calls[1].found
          /\ resp'.calls[2].ok /\ ~resp'.calls[2].found
          => /\ resp'.status = 200
             /\ resp'.body.success = TRUE
             /\ objects' = objects /\ table' = table
     /\ \A r \in ReqIds :
          /\ ObjectDeleteReturns(r) => OtherKeysKept(reqs'[r].req.key.s)
          /\ TableCallEnds(r, "DeleteItem") => OtherKeysKept(reqs[r].req.key.s)]_vars

C9_NothingDeleted ==
  /\ Answered("delete") /\ resp.status = 200
  /\ ~resp.calls[1].found /\ ~resp.calls[2].found
  /\ objects # {} /\ DOMAIN table # {}

(******************************** C10 **************************************)
\* C10: the table delete is attempted only after the object delete returned:
\* when the object delete fails the request is answered 500 at once, with no
\* table call and the table unchanged, and a record leaves the table only in
\* the table call of a delete-image request whose object delete returned.
C10_TableDeleteOnlyAfterObjectDelete ==
  [][/\ Answers("delete") /\ Len(resp'.calls) > 0 /\ ~resp'.calls[1].ok
          => /\ resp'.status = 500
             /\ Len(resp'.calls) = 1
             /\ table' = table /\ reqs' = reqs
     /\ \A k \in DOMAIN table \ DOMAIN table' :
          \E r \in ReqIds :
            /\ TableCallEnds(r, "DeleteItem")
            /\ reqs[r].req.key.s = k
            /\ reqs[r].calls = <<Call("DeleteObject", TRUE, reqs[r].calls[1].found)>>]_vars

C10_ObjectDeleteFailed ==
  /\ Answered("delete") /\ resp.status = 500
  /\ Len(resp.calls) = 1 /\ ~resp.calls[1].ok
  /\ resp.req.key.s \in DOMAIN table
  /\ resp.req.key.s \in objects

====
